---- MODULE Spec2Model ----
(***************************************************************************)
(* Model of the Obsidian Confluence publisher plugin.                      *)
(*                                                                         *)
(*   Spec        the plugin: ribbon/command handlers, executePublish,      *)
(*               init/saveSettings, the two modals and the editor          *)
(*               (src/src/main.ts, CompletedModal, PublishingModal).       *)
(*   SpecSelect  the file selection of getFilesToPublish and               *)
(*               getMarkdownFilesToUpload, applied to bounded vaults.      *)
(*   SpecRequest MyBaseClient.sendRequest, applied to bounded request      *)
(*               configurations and host responses.                       *)
(*                                                                         *)
(* JavaScript runs one task at a time: an action is the code that runs     *)
(* between two awaits.  Where the order of statements inside one such run  *)
(* matters, the run is split into steps and `running` names the call that  *)
(* holds the thread; no other action is enabled until it yields.           *)
(***************************************************************************)
EXTENDS Integers, Sequences, FiniteSets, TLC

\* ------------------------------------------------------------------------
\* Bounds
\* ------------------------------------------------------------------------
MaxCalls == 2      \* invocations of executePublish
MaxInits == 1      \* runs of saveSettings -> init after onload
MaxPos == 1        \* editor cursor / scroll positions are 0..MaxPos
MaxFiles == 2      \* files in a vault (SpecSelect)
MaxParams == 2     \* entries of requestConfig.params (SpecRequest)
MaxResults == 2    \* elements of the publisher's result (SpecDoPublish)

Calls == 1..MaxCalls
Adaptors == 1..(MaxInits + 1)
Positions == 0..MaxPos
NoPos == -1        \* a null savedCursor / savedScrollInfo

\* ------------------------------------------------------------------------
\* JavaScript values that are thrown, stringified and shown
\* ------------------------------------------------------------------------
\* t: the kind of value, s: its text (string, Error message), n: its number
\* (number value, object field, identity of an Error object).
StrV(s) == [t |-> "string", s |-> s, n |-> 0]
NumV(n) == [t |-> "number", s |-> "", n |-> n]
ObjV(n) == [t |-> "object", s |-> "", n |-> n]       \* the object {code: n}
CircV == [t |-> "circular", s |-> "", n |-> 0]       \* o with o.self = o
NullV == [t |-> "null", s |-> "", n |-> 0]
UndefV == [t |-> "undefined", s |-> "", n |-> 0]
ErrorV(id, msg) == [t |-> "Error", s |-> msg, n |-> id]
TypeErrorV(msg) == [t |-> "TypeError", s |-> msg, n |-> 0]

\* `error instanceof Error`
InstanceOfError(v) == v.t \in {"Error", "TypeError", "HTTPError"}

\* `typeof error`
TypeOf(v) ==
    CASE v.t \in {"object", "circular", "null", "Error", "TypeError", "HTTPError"} -> "object"
      [] OTHER -> v.t

\* JSON.stringify(v): a string, undefined (for undefined), or a thrown
\* TypeError (for a structure that refers to itself).
JSONStringify(v) ==
    CASE v.t = "string" -> [throws |-> FALSE, v |-> StrV("\"" \o v.s \o "\"")]
      [] v.t = "number" -> [throws |-> FALSE, v |-> StrV(ToString(v.n))]
      [] v.t = "object" -> [throws |-> FALSE, v |-> StrV("{\"code\":" \o ToString(v.n) \o "}")]
      [] v.t = "null" -> [throws |-> FALSE, v |-> StrV("null")]
      [] v.t = "undefined" -> [throws |-> FALSE, v |-> UndefV]
      [] v.t = "circular" -> [throws |-> TRUE, v |-> TypeErrorV("Converting circular structure to JSON")]
      [] OTHER -> [throws |-> FALSE, v |-> StrV("{}")]   \* an Error has no enumerable own fields

\* String(v) for the values that are not objects
StringOf(v) ==
    CASE v.t = "string" -> v.s
      [] v.t = "number" -> ToString(v.n)
      [] v.t = "undefined" -> "undefined"
      [] OTHER -> "[object Object]"

\* What a publish can be rejected with
Thrown ==
    { ErrorV(1, "Network down"), ErrorV(2, ""), StrV("oops"), UndefV, CircV }

\* What a call of the host's vault can throw
HostThrown == { ErrorV(3, "Vault unavailable") }

\* ------------------------------------------------------------------------
\* File selection (main.ts getFilesToPublish, ObsidianAdaptor
\* getMarkdownFilesToUpload)
\* ------------------------------------------------------------------------
\* A path is a sequence of characters.
StartsWith(s, p) == Len(p) <= Len(s) /\ SubSeq(s, 1, Len(p)) = p
EndsWith(s, p) == Len(p) <= Len(s) /\ SubSeq(s, Len(s) - Len(p) + 1, Len(s)) = p

DotExcalidraw == <<".", "e", "x", "c", "a", "l", "i", "d", "r", "a", "w">>
DotMd == <<".", "m", "d">>

\* A file of the vault with what the metadata cache holds for it:
\*   cache  "none"  getCache(path) returns null
\*          "nofm"  a cache entry without frontmatter
\*          "fm"    a cache entry with frontmatter
\*   cp     frontmatter["connie-publish"]: "true", "false" (the booleans),
\*          "other" (any other value, such as the string "no"), "unset"
TFile(path, cache, cp) == [path |-> path, cache |-> cache, cp |-> cp]

HasFrontMatter(file) == file.cache = "fm"

\* The condition of the if statement, main.ts 225-229
Qualifies_NoAbsentFM(file, folder) ==
    \/ /\ StartsWith(file.path, folder)
       /\ HasFrontMatter(file) /\ file.cp # "false"
    \/ (HasFrontMatter(file) /\ file.cp = "true")

Qualifies(file, folder) ==
    \/ /\ StartsWith(file.path, folder)
       /\ (~HasFrontMatter(file) \/ file.cp # "false")
    \/ (HasFrontMatter(file) /\ file.cp = "true")

\* The loop of getFilesToPublish: i is the next index, acc is filesToPublish
RECURSIVE GetFilesLoop(_, _, _, _)
GetFilesLoop(files, folder, i, acc) ==
    IF i > Len(files) THEN acc
    ELSE LET file == files[i] IN
         IF EndsWith(file.path, DotExcalidraw)
         THEN GetFilesLoop(files, folder, i + 1, acc)            \* continue
         ELSE IF file.cache = "none"
         THEN GetFilesLoop(files, folder, i + 1, acc)            \* continue
         ELSE IF Qualifies(file, folder)
         THEN GetFilesLoop(files, folder, i + 1, Append(acc, file))
         ELSE GetFilesLoop(files, folder, i + 1, acc)

GetFilesToPublish(files, folder) == GetFilesLoop(files, folder, 1, <<>>)

\* The first loop of getMarkdownFilesToUpload: a missing cache entry throws
\* inside the try block and the catch ignores it.
RECURSIVE AdaptorLoop(_, _, _, _)
AdaptorLoop(files, folder, i, acc) ==
    IF i > Len(files) THEN acc
    ELSE LET file == files[i]
             threw == ~EndsWith(file.path, DotExcalidraw) /\ file.cache = "none"
         IN
         IF EndsWith(file.path, DotExcalidraw)
         THEN AdaptorLoop(files, folder, i + 1, acc)
         ELSE IF threw
         THEN AdaptorLoop(files, folder, i + 1, acc)             \* catch {}
         ELSE IF Qualifies(file, folder)
         THEN AdaptorLoop(files, folder, i + 1, Append(acc, file))
         ELSE AdaptorLoop(files, folder, i + 1, acc)

GetMarkdownFilesToUpload(files, folder) == AdaptorLoop(files, folder, 1, <<>>)

\* Paths, folders and vaults the selection is applied to
Path(folder, name, ext) == folder \o name \o ext
Folders == { <<>>, <<"p">>, <<"p", "/">> }
Paths ==
    { Path(<<"p", "/">>, <<"a">>, DotMd),
      Path(<<"p", "q", "/">>, <<"b">>, DotMd),
      Path(<<"x", "/">>, <<"c">>, DotMd),
      Path(<<"p", "/">>, <<"d">>, DotExcalidraw),
      Path(<<"x", "/">>, <<"e">>, DotExcalidraw) }
Metadata ==
    { <<"none", "unset">>, <<"nofm", "unset">>, <<"fm", "unset">>,
      <<"fm", "true">>, <<"fm", "false">>, <<"fm", "other">> }
Files == { TFile(p, m[1], m[2]) : p \in Paths, m \in Metadata }

\* Vaults: sequences of up to n files with different paths
Vaults(n) ==
    UNION { { v \in [1..k -> Files] :
                \A i, j \in 1..k : i # j => v[i].path # v[j].path } : k \in 0..n }

\* ------------------------------------------------------------------------
\* doPublish: the publisher's results split into uploaded and failed files
\* ------------------------------------------------------------------------
\* An element of the publisher's result: node.file.absoluteFilePath, the
\* optional successfulUploadResult (an object, or undefined) and the optional
\* reason (a string, or undefined).
UploadResult(path, contentResult) ==
    [t |-> "object", s |-> contentResult, n |-> 0, adfFile |-> path]

AdrFile(path, successfulUploadResult, reason) ==
    [absoluteFilePath |-> path,
     successfulUploadResult |-> successfulUploadResult,
     reason |-> reason]

\* Truthiness of a value: if (value)
Truthy(value) ==
    CASE value.t \in {"undefined", "null"} -> FALSE
      [] value.t = "string" -> value.s # ""
      [] value.t = "number" -> value.n # 0
      [] OTHER -> TRUE

\* if (element.successfulUploadResult)
Uploaded_WhenNoReason(element) == element.reason = UndefV

Uploaded(element) == Truthy(element.successfulUploadResult)

\* element.reason ?? "No Reason Provided"
ReasonOf(element) ==
    IF element.reason.t \in {"undefined", "null"}
    THEN StrV("No Reason Provided")
    ELSE element.reason

RECURSIVE DoPublishLoop(_, _, _)
DoPublishLoop(adrFiles, i, returnVal) ==
    IF i > Len(adrFiles) THEN returnVal
    ELSE LET element == adrFiles[i] IN
         IF Uploaded(element)
         THEN DoPublishLoop(adrFiles, i + 1,
                  [returnVal EXCEPT !.filesUploadResult =
                       Append(@, element.successfulUploadResult)])
         ELSE DoPublishLoop(adrFiles, i + 1,
                  [returnVal EXCEPT !.failedFiles =
                       Append(@, [fileName |-> element.absoluteFilePath,
                                  reason |-> ReasonOf(element)])])

DoPublish(adrFiles) ==
    DoPublishLoop(adrFiles, 1,
        [errorMessage |-> NullV, failedFiles |-> <<>>, filesUploadResult |-> <<>>])

\* What the publisher returns in the plugin model
PublisherResults ==
    { <<>>,
      <<AdrFile("p/b.md", UndefV, UndefV),
        AdrFile("p/a.md", UploadResult("p/a.md", "updated"), UndefV)>> }

\* ------------------------------------------------------------------------
\* The plugin
\* ------------------------------------------------------------------------
VARIABLES
    isSyncing,         \* ConfluencePlugin.isSyncing
    adaptor,           \* this.adaptor: the current ObsidianAdaptor object
    publisher,         \* this.publisher, named by the adaptor it was built with
    loadMarkdownFile,  \* per adaptor object: its loadMarkdownFile property
    initPc,            \* position of saveSettings -> init
    nInits,            \* completed runs of init after onload
    vault,             \* app.vault.getMarkdownFiles() with the metadata cache
    folderToPublish,   \* settings.folderToPublish
    cursor,            \* editor.getCursor('head')
    scrollInfo,        \* editor.getScrollInfo()
    nCalls,            \* calls of executePublish made so far
    running,           \* the call that runs right now, 0 when none does
    notices,           \* number of "Syncing already ongoing" notices shown
    pc,                \* per call: position in executePublish
    local,             \* per call: the locals and closures of executePublish
    publishingModal,   \* per call: its PublishingModal
    completedModal,    \* per call: its CompletedModal
    settled,           \* per call: outcome of the promise executePublish returns
    restored,          \* per call: its close handler has restored the editor
    \* file selection (SpecSelect)
    selDone,           \* which of the two selections have been applied
    selected,          \* result of getFilesToPublish
    toUpload,          \* filesToPublish of getMarkdownFilesToUpload
    \* MyBaseClient.sendRequest (SpecRequest)
    clientConfig,      \* this.config of the client
    requestConfig,     \* the argument of sendRequest
    reqPc,             \* position in sendRequest
    prepared,          \* its locals: params, requestContentType, requestBody
    requestUrlCalls,   \* the calls of the host's requestUrl, in order
    response,          \* what requestUrl returned
    caught,            \* the value the catch block received
    onErrorCalls,      \* calls of middlewares.onError
    outcome,           \* what the promise of sendRequest settled with
    published,         \* what publisher.publish resolved with (doPublish)
    doPublishPc,       \* position in doPublish
    doPublishReturn,   \* what doPublish returned
    frontmatter,       \* the frontmatter of each file of the vault, by path
    umvPath,           \* updateMarkdownValues: its argument absoluteFilePath
    umvValues,         \* updateMarkdownValues: its argument values
    umvViewActive,     \* the active markdown view shows the file at umvPath
    umvPc,             \* position in updateMarkdownValues
    fmWork,            \* the processFrontMatter call it started
    umvTimer           \* the 100 ms timer that restores the editor state

pluginVars ==
    <<isSyncing, adaptor, publisher, loadMarkdownFile, initPc, nInits,
      cursor, scrollInfo, nCalls, running, notices, pc, local,
      publishingModal, completedModal, settled, restored>>

selVars == <<selDone, selected, toUpload>>

reqVars ==
    <<clientConfig, requestConfig, reqPc, prepared, requestUrlCalls, response,
      caught, onErrorCalls, outcome>>

dpVars == <<published, doPublishPc, doPublishReturn>>

umvVars == <<frontmatter, umvPath, umvValues, umvViewActive, umvPc, fmWork, umvTimer>>

callVars == <<dpVars, umvVars>>

\* The selection, the client and the direct calls at rest
SelectIdle ==
    /\ selDone = {}
    /\ selected = <<>>
    /\ toUpload = <<>>

RequestIdle ==
    /\ clientConfig = [host |-> "", noCheckAtlassianToken |-> FALSE, onError |-> FALSE]
    /\ requestConfig = [url |-> ""]
    /\ reqPc = "idle"
    /\ prepared = [params |-> ""]
    /\ requestUrlCalls = <<>>
    /\ response = [status |-> 0]
    /\ caught = [has |-> FALSE, at |-> "", v |-> UndefV]
    /\ onErrorCalls = 0
    /\ outcome = UndefV

DoPublishIdle ==
    /\ published = <<>>
    /\ doPublishPc = "idle"
    /\ doPublishReturn = UndefV

UpdateIdle ==
    /\ frontmatter = <<>>
    /\ umvPath = ""
    /\ umvValues = <<>>
    /\ umvViewActive = FALSE
    /\ umvPc = "idle"
    /\ fmWork = "none"
    /\ umvTimer = [armed |-> FALSE, savedCursor |-> NoPos, savedScrollInfo |-> NoPos]

CallIdle == DoPublishIdle /\ UpdateIdle

\* loadMarkdownFile of an adaptor: the prototype's method, or the wrapper that
\* setupProgressTracking installed for the modal of a call
Original == [wrapped |-> FALSE, modal |-> 0]
Wrapper(c) == [wrapped |-> TRUE, modal |-> c]

InitialStatus ==
    [filesProcessed |-> 0, totalFiles |-> 0, stage |-> "preparing", currentFile |-> <<>>]

NoResults == [errorMessage |-> NullV, failedFiles |-> <<>>, filesUploadResult |-> <<>>]

\* What CompletedView renders: the Error section with the message when
\* errorMessage is truthy; otherwise the 'N files uploaded successfully'
\* summary, the Failed Uploads section and the table.
NoView == [error |-> FALSE, message |-> NullV, summary |-> FALSE,
           uploaded |-> 0, failed |-> 0]

CompletedView(uploadResults) ==
    IF Truthy(uploadResults.errorMessage)
    THEN [error |-> TRUE, message |-> uploadResults.errorMessage,
          summary |-> FALSE, uploaded |-> 0, failed |-> 0]
    ELSE [error |-> FALSE, message |-> NullV, summary |-> TRUE,
          uploaded |-> Len(uploadResults.filesUploadResult),
          failed |-> Len(uploadResults.failedFiles)]

InitLocal ==
    [restoreState |-> FALSE, activeView |-> FALSE,
     savedCursor |-> NoPos, savedScrollInfo |-> NoPos,
     cleanup |-> FALSE, originalLoadMarkdownFile |-> Original,
     filesProcessed |-> 0, filesToPublish |-> <<>>, loaded |-> 0,
     usedAdaptor |-> 0, stats |-> NoResults,
     caught |-> FALSE, error |-> UndefV,
     handlerThrew |-> FALSE, escaped |-> UndefV]

PluginInit ==
    /\ isSyncing = FALSE
    /\ adaptor = 1
    /\ publisher = 1
    /\ loadMarkdownFile = [a \in Adaptors |-> Original]
    /\ initPc = "idle"
    /\ nInits = 0
    /\ cursor = 0
    /\ scrollInfo = 0
    /\ nCalls = 0
    /\ running = 0
    /\ notices = 0
    /\ pc = [c \in Calls |-> "idle"]
    /\ local = [c \in Calls |-> InitLocal]
    /\ publishingModal = [c \in Calls |-> [state |-> "none", status |-> InitialStatus]]
    /\ completedModal = [c \in Calls |->
           [state |-> "none", uploadResults |-> NoResults, customCloseHandler |-> FALSE,
            rendered |-> NoView]]
    /\ settled = [c \in Calls |-> "pending"]
    /\ restored = [c \in Calls |-> FALSE]

\* The vault of the plugin model
PluginVault ==
    << TFile(Path(<<"p", "/">>, <<"a">>, DotMd), "fm", "unset"),
       TFile(Path(<<"x", "/">>, <<"c">>, DotMd), "fm", "unset") >>

Init ==
    /\ PluginInit
    /\ vault = PluginVault
    /\ folderToPublish = <<"p">>
    /\ SelectIdle
    /\ RequestIdle
    /\ CallIdle

\* --- executePublish ------------------------------------------------------
\* Positions of a call:
\*   idle        not called yet
\*   returned    the guard returned
\*   preparing   awaiting the 10 ms of updatePublishingProgress({preparing})
\*   waiting     awaiting the 300 ms timer
\*   processing  awaiting the 10 ms of updatePublishingProgress({processing})
\*   publishing  awaiting publishFn()
\*   finalizing  awaiting the 10 ms of updatePublishingProgress({finalizing})
\*   showResults the progress modal is closed, the completion modal is next
\*   catch, handleError   in the catch block
\*   finally     in the finally block
\*   done        executePublish is over
ActivePcs ==
    { "preparing", "waiting", "processing", "publishing", "finalizing",
      "showResults", "catch", "handleError", "finally" }

\* modal.updateStatus(newStatus): { ...this.status, ...newStatus }.  The
\* status is what the mounted component shows; a modal that is not open has
\* no component, is never opened again, and its status is not tracked.
UpdateStatus(c, newStatus) ==
    IF publishingModal[c].state = "open"
    THEN [publishingModal EXCEPT ![c].status =
            [f \in DOMAIN @ |-> IF f \in DOMAIN newStatus THEN newStatus[f] ELSE @[f]]]
    ELSE publishingModal

\* executePublish(publishFn, restoreState); viewActive is whether
\* getActiveViewOfType(MarkdownView) returns a view at the time of the call.
\* The guard:
AlreadySyncing_Never == FALSE

AlreadySyncing == isSyncing

ExecutePublish(c, restoreState, viewActive) ==
    IF AlreadySyncing
    THEN /\ notices' = notices + 1                  \* new Notice(...); return
         /\ pc' = [pc EXCEPT ![c] = "returned"]
         /\ settled' = [settled EXCEPT ![c] = "fulfilled"]
         /\ UNCHANGED <<isSyncing, local, publishingModal>>
    ELSE LET activeView == restoreState /\ viewActive IN
         /\ local' = [local EXCEPT ![c] =
                [@ EXCEPT !.restoreState = restoreState,
                          !.activeView = activeView,
                          !.savedCursor = IF activeView THEN cursor ELSE NoPos,
                          !.savedScrollInfo = IF activeView THEN scrollInfo ELSE NoPos]]
         /\ isSyncing' = TRUE
         /\ publishingModal' = [publishingModal EXCEPT ![c] =
                [state |-> "open",
                 status |-> [InitialStatus EXCEPT !.stage = "preparing"]]]
         /\ pc' = [pc EXCEPT ![c] = "preparing"]
         /\ UNCHANGED <<notices, settled>>

\* The ribbon icon: calls executePublish whatever isSyncing is
RibbonClick ==
    /\ running = 0
    /\ nCalls < MaxCalls
    /\ nCalls' = nCalls + 1
    /\ \E viewActive \in BOOLEAN : ExecutePublish(nCalls + 1, TRUE, viewActive)
    /\ UNCHANGED <<adaptor, publisher, loadMarkdownFile, initPc, nInits, vault,
                   folderToPublish, cursor, scrollInfo, running,
                   completedModal, restored>>
    /\ UNCHANGED <<selVars, reqVars, callVars>>

\* The commands publish-current and publish-all (they differ in the filter
\* that publishFn hands to the publisher): checkCallback returns without
\* calling executePublish while isSyncing
PublishCommand ==
    /\ running = 0
    /\ nCalls < MaxCalls
    /\ ~isSyncing
    /\ nCalls' = nCalls + 1
    /\ \E viewActive \in BOOLEAN : ExecutePublish(nCalls + 1, TRUE, viewActive)
    /\ UNCHANGED <<adaptor, publisher, loadMarkdownFile, initPc, nInits, vault,
                   folderToPublish, cursor, scrollInfo, running,
                   completedModal, restored>>
    /\ UNCHANGED <<selVars, reqVars, callVars>>

\* The first 10 ms are over: the 300 ms timer starts
PrepareShown(c) ==
    /\ running = 0
    /\ pc[c] = "preparing"
    /\ pc' = [pc EXCEPT ![c] = "waiting"]
    /\ UNCHANGED <<isSyncing, adaptor, publisher, loadMarkdownFile, initPc, nInits,
                   vault, folderToPublish, cursor, scrollInfo, nCalls,
                   running, notices, local, publishingModal, completedModal,
                   settled, restored>>
    /\ UNCHANGED <<selVars, reqVars, callVars>>

\* getFilesToPublish returns: the modal shows the total and 'processing'
ScanVault(c) ==
    /\ running = 0
    /\ pc[c] = "waiting"
    /\ LET filesToPublish == GetFilesToPublish(vault, folderToPublish) IN
       /\ local' = [local EXCEPT ![c].filesToPublish = filesToPublish]
       /\ publishingModal' = UpdateStatus(c,
              [totalFiles |-> Len(filesToPublish), stage |-> "processing"])
    /\ pc' = [pc EXCEPT ![c] = "processing"]
    /\ UNCHANGED <<isSyncing, adaptor, publisher, loadMarkdownFile, initPc, nInits,
                   vault, folderToPublish, cursor, scrollInfo, nCalls,
                   running, notices, completedModal, settled, restored>>
    /\ UNCHANGED <<selVars, reqVars, callVars>>

\* getFilesToPublish throws (the vault call outside its inner try)
ScanVaultThrows(c) ==
    /\ running = 0
    /\ pc[c] = "waiting"
    /\ \E e \in HostThrown :
          local' = [local EXCEPT ![c].caught = TRUE, ![c].error = e]
    /\ pc' = [pc EXCEPT ![c] = "catch"]
    /\ running' = c
    /\ UNCHANGED <<isSyncing, adaptor, publisher, loadMarkdownFile, initPc, nInits,
                   vault, folderToPublish, cursor, scrollInfo, nCalls,
                   notices, publishingModal, completedModal, settled, restored>>
    /\ UNCHANGED <<selVars, reqVars, callVars>>

\* setupProgressTracking(modal): wraps loadMarkdownFile of this.adaptor and
\* returns the cleanup closure
SetupProgressTracking(c) ==
    /\ local' = [local EXCEPT ![c] =
           [@ EXCEPT !.cleanup = TRUE,
                     !.originalLoadMarkdownFile = loadMarkdownFile[adaptor],
                     !.filesProcessed = 0,
                     !.usedAdaptor = publisher]]
    /\ loadMarkdownFile' = [loadMarkdownFile EXCEPT ![adaptor] = Wrapper(c)]

\* cleanup = setupProgressTracking(...); publishFn() starts on this.publisher
StartPublish(c) ==
    /\ running = 0
    /\ pc[c] = "processing"
    /\ SetupProgressTracking(c)
    /\ pc' = [pc EXCEPT ![c] = "publishing"]
    /\ UNCHANGED <<isSyncing, adaptor, publisher, initPc, nInits, vault,
                   folderToPublish, cursor, scrollInfo, nCalls, running,
                   notices, publishingModal, completedModal, settled, restored>>
    /\ UNCHANGED <<selVars, reqVars, callVars>>

\* absoluteFilePath.split('/').pop() || absoluteFilePath
RECURSIVE LastSlash(_, _)
LastSlash(path, i) ==
    IF i = 0 THEN 0
    ELSE IF path[i] = "/" THEN i
    ELSE LastSlash(path, i - 1)

FileNameOf(path) ==
    LET k == LastSlash(path, Len(path))
        last == SubSeq(path, k + 1, Len(path))
    IN IF last = <<>> THEN path ELSE last

\* The publisher of call c loads its next file through loadMarkdownFile of the
\* adaptor it was built with; an installed wrapper reports to its modal first.
LoadMarkdownFile(c) ==
    /\ running = 0
    /\ pc[c] = "publishing"
    /\ LET files == GetMarkdownFilesToUpload(vault, folderToPublish)
           method == loadMarkdownFile[local[c].usedAdaptor]
           m == method.modal
       IN
       /\ local[c].loaded < Len(files)
       /\ IF method.wrapped
          THEN /\ publishingModal' = UpdateStatus(m,
                      [currentFile |-> FileNameOf(files[local[c].loaded + 1].path),
                       filesProcessed |-> local[m].filesProcessed])
               /\ local' = [local EXCEPT
                      ![m].filesProcessed = @ + 1,
                      ![c].loaded = local[c].loaded + 1]
          ELSE /\ local' = [local EXCEPT ![c].loaded = @ + 1]
               /\ UNCHANGED publishingModal
    /\ UNCHANGED <<isSyncing, adaptor, publisher, loadMarkdownFile, initPc, nInits,
                   vault, folderToPublish, cursor, scrollInfo, nCalls,
                   running, notices, pc, completedModal, settled, restored>>
    /\ UNCHANGED <<selVars, reqVars, callVars>>

\* publishFn resolves: the modal shows 'finalizing'
PublishResolves(c) ==
    /\ running = 0
    /\ pc[c] = "publishing"
    /\ \E adrFiles \in PublisherResults :
          local' = [local EXCEPT ![c].stats = DoPublish(adrFiles)]
    /\ publishingModal' = UpdateStatus(c,
           [filesProcessed |-> Len(local[c].filesToPublish), stage |-> "finalizing"])
    /\ pc' = [pc EXCEPT ![c] = "finalizing"]
    /\ UNCHANGED <<isSyncing, adaptor, publisher, loadMarkdownFile, initPc, nInits,
                   vault, folderToPublish, cursor, scrollInfo, nCalls,
                   running, notices, completedModal, settled, restored>>
    /\ UNCHANGED <<selVars, reqVars, callVars>>

\* publishFn rejects: control enters the catch block
PublishRejects(c) ==
    /\ running = 0
    /\ pc[c] = "publishing"
    /\ \E e \in Thrown :
          local' = [local EXCEPT ![c].caught = TRUE, ![c].error = e]
    /\ pc' = [pc EXCEPT ![c] = "catch"]
    /\ running' = c
    /\ UNCHANGED <<isSyncing, adaptor, publisher, loadMarkdownFile, initPc, nInits,
                   vault, folderToPublish, cursor, scrollInfo, nCalls,
                   notices, publishingModal, completedModal, settled, restored>>
    /\ UNCHANGED <<selVars, reqVars, callVars>>

\* Modal.close() of the progress modal: onClose unmounts the component
ClosePublishingModal(c) ==
    [publishingModal EXCEPT ![c] = [state |-> "closed", status |-> InitialStatus]]

\* Success path, after the last 10 ms: publishingModal.close()
CloseProgress_KeepOpen(c) ==
    /\ running = 0
    /\ pc[c] = "finalizing"
    /\ pc' = [pc EXCEPT ![c] = "showResults"]
    /\ running' = c
    /\ UNCHANGED <<isSyncing, adaptor, publisher, loadMarkdownFile, initPc, nInits,
                   vault, folderToPublish, cursor, scrollInfo, nCalls,
                   notices, local, publishingModal, completedModal, settled, restored>>
    /\ UNCHANGED <<selVars, reqVars, callVars>>

CloseProgress(c) ==
    /\ running = 0
    /\ pc[c] = "finalizing"
    /\ publishingModal' = ClosePublishingModal(c)
    /\ pc' = [pc EXCEPT ![c] = "showResults"]
    /\ running' = c
    /\ UNCHANGED <<isSyncing, adaptor, publisher, loadMarkdownFile, initPc, nInits,
                   vault, folderToPublish, cursor, scrollInfo, nCalls,
                   notices, local, completedModal, settled, restored>>
    /\ UNCHANGED <<selVars, reqVars, callVars>>

\* new CompletedModal(stats); setCloseHandler when restoreState && activeView;
\* modal.open()
ShowCompleted(c) ==
    /\ running = c
    /\ pc[c] = "showResults"
    /\ completedModal' = [completedModal EXCEPT ![c] =
           [state |-> "open",
            uploadResults |-> local[c].stats,
            customCloseHandler |-> local[c].restoreState /\ local[c].activeView,
            rendered |-> CompletedView(local[c].stats)]]
    /\ pc' = [pc EXCEPT ![c] = "finally"]
    /\ UNCHANGED <<isSyncing, adaptor, publisher, loadMarkdownFile, initPc, nInits,
                   vault, folderToPublish, cursor, scrollInfo, nCalls,
                   running, notices, local, publishingModal, settled, restored>>
    /\ UNCHANGED <<selVars, reqVars, callVars>>

\* catch: publishingModal.close()
CatchClose(c) ==
    /\ running = c
    /\ pc[c] = "catch"
    /\ publishingModal' = ClosePublishingModal(c)
    /\ pc' = [pc EXCEPT ![c] = "handleError"]
    /\ UNCHANGED <<isSyncing, adaptor, publisher, loadMarkdownFile, initPc, nInits,
                   vault, folderToPublish, cursor, scrollInfo, nCalls,
                   running, notices, local, completedModal, settled, restored>>
    /\ UNCHANGED <<selVars, reqVars, callVars>>

\* error instanceof Error ? error.message : JSON.stringify(error)
ErrorMessageOf(error) ==
    IF InstanceOfError(error)
    THEN [throws |-> FALSE, v |-> StrV(error.s)]
    ELSE JSONStringify(error)

\* catch: handlePublishError(error) opens a CompletedModal with the message,
\* unless building the message throws
HandlePublishError(c) ==
    /\ running = c
    /\ pc[c] = "handleError"
    /\ LET errorMessage == ErrorMessageOf(local[c].error) IN
       IF errorMessage.throws
       THEN /\ local' = [local EXCEPT ![c].handlerThrew = TRUE,
                                      ![c].escaped = errorMessage.v]
            /\ UNCHANGED completedModal
       ELSE /\ LET uploadResults == [errorMessage |-> errorMessage.v,
                                     failedFiles |-> <<>>,
                                     filesUploadResult |-> <<>>]
               IN completedModal' = [completedModal EXCEPT ![c] =
                      [state |-> "open",
                       uploadResults |-> uploadResults,
                       customCloseHandler |-> FALSE,
                       rendered |-> CompletedView(uploadResults)]]
            /\ UNCHANGED local
    /\ pc' = [pc EXCEPT ![c] = "finally"]
    /\ UNCHANGED <<isSyncing, adaptor, publisher, loadMarkdownFile, initPc, nInits,
                   vault, folderToPublish, cursor, scrollInfo, nCalls,
                   running, notices, publishingModal, settled, restored>>
    /\ UNCHANGED <<selVars, reqVars, callVars>>

\* The cleanup closure: this.adaptor.loadMarkdownFile = originalLoadMarkdownFile
Cleanup(c) ==
    [loadMarkdownFile EXCEPT ![adaptor] = local[c].originalLoadMarkdownFile]

\* The value the finally block leaves in isSyncing
SyncingAfterFinally_StuckOnThrow(c) == local[c].handlerThrew

SyncingAfterFinally(c) == FALSE

\* When executePublish returns its locals are gone.  The model keeps what a
\* closure may still hold: restoreState, activeView, savedCursor and
\* savedScrollInfo while the completion modal of the call is open (its close
\* handler), filesProcessed while the wrapper is installed on some adaptor.
WrapperInstalled(c, methods) == \E a \in Adaptors : methods[a] = Wrapper(c)

Captured(c, methods) ==
    [InitLocal EXCEPT
        !.restoreState = completedModal[c].state = "open" /\ local[c].restoreState,
        !.activeView = completedModal[c].state = "open" /\ local[c].activeView,
        !.savedCursor = IF completedModal[c].state = "open"
                        THEN local[c].savedCursor ELSE NoPos,
        !.savedScrollInfo = IF completedModal[c].state = "open"
                            THEN local[c].savedScrollInfo ELSE NoPos,
        !.filesProcessed = IF WrapperInstalled(c, methods)
                           THEN local[c].filesProcessed ELSE 0]

\* finally: cleanup when it was set, isSyncing = false; executePublish ends
Finally(c) ==
    /\ running = c
    /\ pc[c] = "finally"
    /\ loadMarkdownFile' = IF local[c].cleanup THEN Cleanup(c) ELSE loadMarkdownFile
    /\ isSyncing' = SyncingAfterFinally(c)
    /\ settled' = [settled EXCEPT ![c] =
           IF local[c].handlerThrew THEN "rejected" ELSE "fulfilled"]
    /\ local' = [local EXCEPT ![c] = Captured(c, loadMarkdownFile')]
    /\ pc' = [pc EXCEPT ![c] = "done"]
    /\ running' = 0
    /\ UNCHANGED <<adaptor, publisher, initPc, nInits, vault, folderToPublish,
                   cursor, scrollInfo, nCalls, notices,
                   publishingModal, completedModal, restored>>
    /\ UNCHANGED <<selVars, reqVars, callVars>>

\* --- the user and the host ------------------------------------------------
\* The user closes the completion modal: CompletedModal.onClose runs the
\* custom close handler, which restores the saved cursor and scroll position.
\* The closed modal and the closure of its handler are released.
CloseCompletedModal(c) ==
    /\ running = 0
    /\ completedModal[c].state = "open"
    /\ completedModal' = [completedModal EXCEPT ![c] =
           [state |-> "closed", uploadResults |-> NoResults,
            customCloseHandler |-> FALSE, rendered |-> NoView]]
    /\ local' = [local EXCEPT ![c] =
           [InitLocal EXCEPT !.filesProcessed = local[c].filesProcessed]]
    /\ IF completedModal[c].customCloseHandler
       THEN /\ cursor' = IF local[c].savedCursor # NoPos
                         THEN local[c].savedCursor ELSE cursor
            /\ scrollInfo' = IF local[c].savedScrollInfo # NoPos
                             THEN local[c].savedScrollInfo ELSE scrollInfo
            /\ restored' = [restored EXCEPT ![c] = TRUE]
       ELSE UNCHANGED <<cursor, scrollInfo, restored>>
    /\ UNCHANGED <<isSyncing, adaptor, publisher, loadMarkdownFile, initPc, nInits,
                   vault, folderToPublish, nCalls, running, notices, pc,
                   publishingModal, settled>>
    /\ UNCHANGED <<selVars, reqVars, callVars>>

\* The user dismisses the progress modal (Escape) while the publish goes on
DismissPublishingModal(c) ==
    /\ running = 0
    /\ publishingModal[c].state = "open"
    /\ publishingModal' = ClosePublishingModal(c)
    /\ UNCHANGED <<isSyncing, adaptor, publisher, loadMarkdownFile, initPc, nInits,
                   vault, folderToPublish, cursor, scrollInfo, nCalls,
                   running, notices, pc, local, completedModal, settled, restored>>
    /\ UNCHANGED <<selVars, reqVars, callVars>>

\* The user edits or navigates: the cursor and the scroll position change
EditorChanges ==
    /\ running = 0
    /\ \E p \in Positions \ {cursor} : cursor' = p /\ scrollInfo' = p
    /\ UNCHANGED <<isSyncing, adaptor, publisher, loadMarkdownFile, initPc, nInits,
                   vault, folderToPublish, nCalls, running,
                   notices, pc, local, publishingModal, completedModal, settled,
                   restored>>
    /\ UNCHANGED <<selVars, reqVars, callVars>>

\* --- saveSettings -> init ----------------------------------------------------
\* saveSettings: await saveData, then init: await loadSettings
SaveSettings ==
    /\ running = 0
    /\ initPc = "idle"
    /\ nInits < MaxInits
    /\ initPc' = "loadSettings"
    /\ UNCHANGED <<isSyncing, adaptor, publisher, loadMarkdownFile, nInits, vault,
                   folderToPublish, cursor, scrollInfo, nCalls, running,
                   notices, pc, local, publishingModal, completedModal, settled,
                   restored>>
    /\ UNCHANGED <<selVars, reqVars, callVars>>

\* init, after loadSettings: this.adaptor = new ObsidianAdaptor(...)
InitAdaptor ==
    /\ running = 0
    /\ initPc = "loadSettings"
    /\ adaptor' = adaptor + 1
    /\ initPc' = "getMermaidItems"
    /\ UNCHANGED <<isSyncing, publisher, loadMarkdownFile, nInits, vault,
                   folderToPublish, cursor, scrollInfo, nCalls, running,
                   notices, pc, local, publishingModal, completedModal, settled,
                   restored>>
    /\ UNCHANGED <<selVars, reqVars, callVars>>

\* init, after getMermaidItems: this.publisher = new Publisher(this.adaptor, ...)
InitPublisher ==
    /\ running = 0
    /\ initPc = "getMermaidItems"
    /\ publisher' = adaptor
    /\ initPc' = "idle"
    /\ nInits' = nInits + 1
    /\ UNCHANGED <<isSyncing, adaptor, loadMarkdownFile, vault, folderToPublish,
                   cursor, scrollInfo, nCalls, running, notices, pc,
                   local, publishingModal, completedModal, settled, restored>>
    /\ UNCHANGED <<selVars, reqVars, callVars>>

Next ==
    \/ RibbonClick
    \/ PublishCommand
    \/ \E c \in Calls : PrepareShown(c)
    \/ \E c \in Calls : ScanVault(c)
    \/ \E c \in Calls : ScanVaultThrows(c)
    \/ \E c \in Calls : StartPublish(c)
    \/ \E c \in Calls : LoadMarkdownFile(c)
    \/ \E c \in Calls : PublishResolves(c)
    \/ \E c \in Calls : PublishRejects(c)
    \/ \E c \in Calls : CloseProgress(c)
    \/ \E c \in Calls : ShowCompleted(c)
    \/ \E c \in Calls : CatchClose(c)
    \/ \E c \in Calls : HandlePublishError(c)
    \/ \E c \in Calls : Finally(c)
    \/ \E c \in Calls : CloseCompletedModal(c)
    \/ \E c \in Calls : DismissPublishingModal(c)
    \/ EditorChanges
    \/ SaveSettings
    \/ InitAdaptor
    \/ InitPublisher

vars ==
    <<isSyncing, adaptor, publisher, loadMarkdownFile, initPc, nInits, vault,
      folderToPublish, cursor, scrollInfo, nCalls, running, notices, pc,
      local, publishingModal, completedModal, settled, restored,
      selDone, selected, toUpload,
      clientConfig, requestConfig, reqPc, prepared, requestUrlCalls, response,
      caught, onErrorCalls, outcome,
      published, doPublishPc, doPublishReturn,
      frontmatter, umvPath, umvValues, umvViewActive, umvPc, fmWork, umvTimer>>

Spec == Init /\ [][Next]_vars

\* executePublish and the user, on a plugin whose settings stay as loaded:
\* saveSettings -> init assigns this.adaptor and this.publisher only
\* (main.ts 279-319), which the guard, the finally block and the modals of
\* executePublish never read.
NextPublish ==
    \/ RibbonClick
    \/ PublishCommand
    \/ \E c \in Calls : PrepareShown(c)
    \/ \E c \in Calls : ScanVault(c)
    \/ \E c \in Calls : ScanVaultThrows(c)
    \/ \E c \in Calls : StartPublish(c)
    \/ \E c \in Calls : LoadMarkdownFile(c)
    \/ \E c \in Calls : PublishResolves(c)
    \/ \E c \in Calls : PublishRejects(c)
    \/ \E c \in Calls : CloseProgress(c)
    \/ \E c \in Calls : ShowCompleted(c)
    \/ \E c \in Calls : CatchClose(c)
    \/ \E c \in Calls : HandlePublishError(c)
    \/ \E c \in Calls : Finally(c)
    \/ \E c \in Calls : CloseCompletedModal(c)
    \/ \E c \in Calls : DismissPublishingModal(c)
    \/ EditorChanges

SpecPublish == Init /\ [][NextPublish]_vars

TypeOK ==
    /\ isSyncing \in BOOLEAN
    /\ adaptor \in Adaptors
    /\ publisher \in Adaptors
    /\ running \in 0..MaxCalls
    /\ \A c \in Calls : pc[c] \in ActivePcs \cup {"idle", "returned", "done"}

\* ------------------------------------------------------------------------
\* Properties of the plugin (C1, C2, C9 under SpecPublish; C7, C8, C10 under Spec)
\* ------------------------------------------------------------------------
Publishing == { c \in Calls : pc[c] = "publishing" }
Active == { c \in Calls : pc[c] \in ActivePcs }

\* C1: at most one publish runs at a time.  A call of executePublish made
\* while isSyncing is true shows one notice and returns: it does not change
\* isSyncing, opens no modal and never reaches publishFn; so no two calls are
\* past the guard, and publishFn never runs twice, at the same time.
C1_GuardedCall(c) ==
    (pc[c] = "idle" /\ pc'[c] # "idle" /\ isSyncing) =>
        /\ pc'[c] = "returned"
        /\ notices' = notices + 1
        /\ isSyncing' = isSyncing
        /\ publishingModal' = publishingModal
        /\ completedModal' = completedModal
        /\ local' = local
        /\ loadMarkdownFile' = loadMarkdownFile

C1_AtMostOnePublish ==
    /\ [](Cardinality(Active) <= 1 /\ Cardinality(Publishing) <= 1)
    /\ [](\A c \in Calls : pc[c] = "returned" =>
              publishingModal[c].state = "none" /\ completedModal[c].state = "none")
    /\ [][\A c \in Calls : C1_GuardedCall(c)]_vars

\* C1 witness: a call was turned away by the guard while another call's
\* publishFn is running.
C1_Witness ==
    \E c, d \in Calls :
        pc[c] = "returned" /\ pc[d] = "publishing" /\ notices >= 1

\* C2: isSyncing is true exactly while a call of executePublish is between
\* its guard and its end: every call that passes the guard sets it, and it
\* is false again once the call is over, whether publishFn resolved,
\* rejected, or handlePublishError itself threw.
C2_FlagTracksCall ==
    /\ isSyncing <=> (Active # {})
    /\ \A c \in Calls : pc[c] \in {"done", "returned"} => settled[c] # "pending"

\* C2 witness: a call ended with the error handler throwing, the flag was
\* reset, and a later call passed the guard and is publishing.
C2_Witness ==
    \E c, d \in Calls :
        /\ pc[c] = "done" /\ settled[c] = "rejected"
        /\ pc[d] = "publishing" /\ isSyncing

\* C7 (as claimed): when getFilesToPublish or publishFn throws, the progress
\* modal is closed, a completion modal is open whose errorMessage is the
\* message of the Error, or the JSON form of the thrown value, with empty
\* lists, and executePublish does not reject.
C7_ErrorShownNotPropagated ==
    /\ \A c \in Calls : (pc[c] = "finally" /\ local[c].caught) =>
           /\ ~local[c].handlerThrew
           /\ publishingModal[c].state = "closed"
           /\ completedModal[c].state = "open"
           /\ completedModal[c].uploadResults.failedFiles = <<>>
           /\ completedModal[c].uploadResults.filesUploadResult = <<>>
           /\ completedModal[c].uploadResults.errorMessage =
                  IF local[c].error.t \in {"Error", "TypeError"}
                  THEN StrV(local[c].error.s)
                  ELSE JSONStringify(local[c].error).v
    /\ \A c \in Calls : settled[c] # "rejected"

\* C8 (as claimed): for a call with restoreState and an active markdown
\* view, closing the modal that reports the outcome, of a successful or of a
\* failed publish, restores the saved cursor and scroll position; and the
\* plugin restores nothing before that.
C8_RestoredOnClose ==
    /\ [][\A c \in Calls :
            ( /\ local[c].restoreState /\ local[c].activeView
              /\ completedModal[c].state = "open"
              /\ completedModal'[c].state = "closed" ) =>
                /\ restored'[c]
                /\ cursor' = local[c].savedCursor
                /\ scrollInfo' = local[c].savedScrollInfo]_vars
    /\ [](\A c \in Calls : restored[c] => completedModal[c].state = "closed")

\* C9: the progress modal of a call is opened before getFilesToPublish and
\* publishFn are called, and it is closed before the completion or error
\* modal of that call is opened: the two are never open together.
C9_ModalsInOrder ==
    \A c \in Calls :
        /\ pc[c] \in ActivePcs => publishingModal[c].state # "none"
        /\ completedModal[c].state # "none" => publishingModal[c].state = "closed"
        /\ ~(publishingModal[c].state = "open" /\ completedModal[c].state = "open")

\* C9 witness: one call has failed and its error modal is open, another has
\* succeeded and has just opened its completion modal; both progress modals
\* are closed.
C9_Witness ==
    \E c, d \in Calls :
        /\ completedModal[c].state = "open"
        /\ completedModal[c].uploadResults.errorMessage # NullV
        /\ pc[d] = "finally" /\ ~local[d].caught
        /\ completedModal[d].state = "open"
        /\ publishingModal[c].state = "closed" /\ publishingModal[d].state = "closed"

\* C10 (as claimed): once executePublish is over, on success or failure and
\* also when init ran during the publish, no adaptor has the call's
\* progress-tracking wrapper as its loadMarkdownFile.
C10_NoWrapperLeft ==
    \A c \in Calls : pc[c] = "done" => ~WrapperInstalled(c, loadMarkdownFile)

\* C12 (as claimed): whenever a publish fails and handlePublishError opens
\* the completion modal, the modal renders the Error section with the
\* message, and not the 'N files uploaded successfully' summary, whatever
\* value was thrown.
C12_ErrorSectionRendered ==
    \A c \in Calls :
        (pc[c] = "finally" /\ local[c].caught /\ completedModal[c].state = "open") =>
            /\ completedModal[c].rendered.error
            /\ completedModal[c].rendered.message = completedModal[c].uploadResults.errorMessage
            /\ ~completedModal[c].rendered.summary

\* ------------------------------------------------------------------------
\* SpecSelect: the two selections applied to every bounded vault
\* ------------------------------------------------------------------------
InitSelect ==
    /\ PluginInit
    /\ RequestIdle
    /\ SelectIdle
    /\ CallIdle
    /\ vault \in Vaults(MaxFiles)
    /\ folderToPublish \in Folders

\* ConfluencePlugin.getFilesToPublish()
CallGetFilesToPublish ==
    /\ "plugin" \notin selDone
    /\ selected' = GetFilesToPublish(vault, folderToPublish)
    /\ selDone' = selDone \cup {"plugin"}
    /\ UNCHANGED <<toUpload, vault, folderToPublish, pluginVars, reqVars, callVars>>

\* ObsidianAdaptor.getMarkdownFilesToUpload(), up to its list filesToPublish
CallGetMarkdownFilesToUpload ==
    /\ "adaptor" \notin selDone
    /\ toUpload' = GetMarkdownFilesToUpload(vault, folderToPublish)
    /\ selDone' = selDone \cup {"adaptor"}
    /\ UNCHANGED <<selected, vault, folderToPublish, pluginVars, reqVars, callVars>>

NextSelect ==
    \/ CallGetFilesToPublish
    \/ CallGetMarkdownFilesToUpload

SpecSelect == InitSelect /\ [][NextSelect]_vars

\* C3: a file of the vault is selected if and only if its path does not end
\* with '.excalidraw', the metadata cache has an entry for it, and either its
\* path starts with folderToPublish and its frontmatter is absent or has
\* 'connie-publish' different from false, or its frontmatter has
\* 'connie-publish' equal to true; the selected files keep the vault's order.
C3_Selected(file) ==
    /\ ~EndsWith(file.path, DotExcalidraw)
    /\ file.cache # "none"
    /\ \/ /\ StartsWith(file.path, folderToPublish)
          /\ (file.cache = "nofm" \/ file.cp # "false")
       \/ (file.cache = "fm" /\ file.cp = "true")

C3_SelectionRule ==
    /\ "plugin" \in selDone => selected = SelectSeq(vault, C3_Selected)
    /\ "adaptor" \in selDone => toUpload = SelectSeq(vault, C3_Selected)

\* C3 witness: both selections were applied to a vault where a file outside
\* the folder is selected through 'connie-publish: true' and a file inside
\* the folder is left out.
C3_Witness ==
    /\ selDone = {"plugin", "adaptor"}
    /\ \E i, j \in DOMAIN vault :
          /\ ~StartsWith(vault[i].path, folderToPublish)
          /\ selected = <<vault[i]>>
          /\ StartsWith(vault[j].path, folderToPublish)
          /\ toUpload = <<vault[i]>>

\* ------------------------------------------------------------------------
\* MyBaseClient.sendRequest
\* ------------------------------------------------------------------------
urlSuffix == "/wiki/rest"

\* An array of strings as a parameter value
ArrV(items) == [t |-> "array", s |-> "", n |-> 0, items |-> items]

\* Array.prototype.join(",")
RECURSIVE Join(_)
Join(items) ==
    IF items = <<>> THEN ""
    ELSE IF Len(items) = 1 THEN items[1]
    ELSE items[1] \o "," \o Join(Tail(items))

\* encode(value): encodeURIComponent, then %3A %24 %2C %20 %5B %5D put back
\* as : $ , + [ ] -- on the strings the model sends
encode(str) ==
    CASE str = "a b" -> "a+b"
      [] str = "{\"code\":7}" -> "%7B%22code%22:7%7D"
      [] str = "x,y:z" -> "x,y:z"
      [] str = "q&r" -> "q%26r"
      [] OTHER -> str

\* The text of one parameter value, after the conversions of paramSerializer
ParamText(value) ==
    CASE value.t = "array" -> Join(value.items)
      [] value.t = "object" -> JSONStringify(value).v.s
      [] value.t = "number" -> ToString(value.n)
      [] OTHER -> value.s

\* paramSerializer(parameters): parameters is the list of entries <<key, value>>
\* of the object; null and undefined values are left out
RECURSIVE ParamParts(_, _, _)
ParamParts(entries, i, parts) ==
    IF i > Len(entries) THEN parts
    ELSE LET key == entries[i][1]
             value == entries[i][2]
         IN IF value.t \in {"null", "undefined"}
            THEN ParamParts(entries, i + 1, parts)
            ELSE ParamParts(entries, i + 1,
                     Append(parts, encode(key) \o "=" \o encode(ParamText(value))))

RECURSIVE JoinAmp(_)
JoinAmp(parts) ==
    IF parts = <<>> THEN ""
    ELSE IF Len(parts) = 1 THEN parts[1]
    ELSE parts[1] \o "&" \o JoinAmp(Tail(parts))

\* Object.entries(undefined) throws a TypeError
paramSerializer(parameters) ==
    IF parameters.defined
    THEN [throws |-> FALSE, v |-> JoinAmp(ParamParts(parameters.entries, 1, <<>>))]
    ELSE [throws |-> TRUE,
          v |-> TypeErrorV("Cannot convert undefined or null to object")]

\* Header maps: functions from header names to values
NoHeaders == [k \in {} |-> UndefV]
Spread(a, b) ==
    [k \in DOMAIN a \cup DOMAIN b |-> IF k \in DOMAIN b THEN b[k] ELSE a[k]]
Without(obj, key) == [k \in DOMAIN obj \ {key} |-> obj[k]]
Get(obj, key) == IF key \in DOMAIN obj THEN obj[key] ELSE UndefV

removeUndefinedProperties(obj) ==
    [k \in { x \in DOMAIN obj : obj[x].t # "undefined" } |-> obj[k]]

\* requestContentType.startsWith("multipart/form-data"), on the content types
\* of the model
MultipartTypes == { "multipart/form-data", "multipart/form-data; boundary=b" }
StartsWithMultipart(contentType) == contentType \in MultipartTypes

\* String.prototype.toUpperCase on the methods of the model
toUpperCase(method) ==
    CASE method = "get" -> "GET"
      [] method = "post" -> "POST"
      [] method = "Delete" -> "DELETE"
      [] OTHER -> method

\* FormData.getHeaders() and getBuffer().buffer of the form-data package
FormDataHeaders == [k \in {"content-type"} |-> StrV("multipart/form-data; boundary=b")]
FormDataBuffer == [t |-> "buffer", s |-> "", n |-> 0]

\* new HTTPError(msg, response)
HTTPErrorId == 200
HTTPError(msg, resp) ==
    [t |-> "HTTPError", s |-> msg, n |-> HTTPErrorId, response |-> resp]

\* new Error(msg) in normalizeError
NewErrorId == 100

\* normalizeError(error): the Error itself, or a new Error of its text;
\* JSON.stringify may throw instead
normalizeError(error) ==
    IF InstanceOfError(error)
    THEN [throws |-> FALSE, v |-> error]
    ELSE IF TypeOf(error) = "object"
    THEN LET json == JSONStringify(error) IN
         IF json.throws THEN json
         ELSE [throws |-> FALSE, v |-> ErrorV(NewErrorId, json.v.s)]
    ELSE [throws |-> FALSE, v |-> ErrorV(NewErrorId, StringOf(error))]

\* middlewares.onError of the client that init builds (main.ts): an error
\* with response.data gets that data as its message
onError(e) ==
    IF "response" \in DOMAIN e
    THEN [e EXCEPT !.s = e.response.data]
    ELSE e

\* --- inputs ---------------------------------------------------------------
\* The two clients main.ts builds: init (with middlewares.onError) and the
\* adf-to-markdown command (without); neither sets noCheckAtlassianToken.
ClientConfigs ==
    { [host |-> "https://x.atlassian.net", noCheckAtlassianToken |-> FALSE,
       onError |-> b] : b \in BOOLEAN }

ParamKeys == { "expand", "limit", "title" }
ParamValues == { StrV("a b"), ArrV(<<"x", "y:z">>), ObjV(7), NullV, UndefV }
ParamEntries(n) ==
    UNION { { e \in [1..k -> ParamKeys \X ParamValues] :
                \A i, j \in 1..k : i # j => e[i][1] # e[j][1] } : k \in 0..n }
ParamSets(n) ==
    { [defined |-> FALSE, entries |-> <<>>] }
        \cup { [defined |-> TRUE, entries |-> e] : e \in ParamEntries(n) }

FormDataV == [t |-> "formData", s |-> "", n |-> 0]
Header(key, value) == [k \in {key} |-> value]
HeaderSets ==
    { [defined |-> FALSE, map |-> NoHeaders],
      [defined |-> TRUE, map |-> NoHeaders],
      [defined |-> TRUE, map |-> Header("content-type", StrV("text/plain"))],
      [defined |-> TRUE, map |-> Header("content-type", UndefV)],
      [defined |-> TRUE, map |-> Header("content-type", StrV("multipart/form-data; boundary=b"))],
      [defined |-> TRUE, map |-> Spread(Header("X-Atlassian-Token", StrV("nocheck")),
                                        Header("Content-Type", StrV("multipart/form-data")))] }

\* The content type the request will have, as the library sets it
DeclaredType(headers) ==
    IF "Content-Type" \in DOMAIN headers.map THEN headers.map["Content-Type"].s
    ELSE IF "content-type" \in DOMAIN headers.map THEN headers.map["content-type"].s
    ELSE ""

\* The library sends a multipart content type with a FormData body only
RequestConfigs ==
    { rc \in [url : {"/api/content"},
              method : {UndefV, StrV("get"), StrV("Delete")},
              params : ParamSets(MaxParams),
              headers : HeaderSets,
              data : {UndefV, ObjV(7), FormDataV}] :
        StartsWithMultipart(DeclaredType(rc.headers)) <=> rc.data = FormDataV }

ThrownInRequest == { ErrorV(1, "Network down"), StrV("oops"), ObjV(7), UndefV, CircV }

Responses ==
    { [status |-> st, text |-> b[1], json |-> b[2]] :
        st \in {200, 399, 400, 404},
        b \in { <<"{\"code\":7}", ObjV(7)>>, <<"null", NullV>> } }

InitRequest ==
    /\ PluginInit
    /\ SelectIdle
    /\ CallIdle
    /\ vault = PluginVault
    /\ folderToPublish = <<"p">>
    /\ clientConfig \in ClientConfigs
    /\ requestConfig \in RequestConfigs
    /\ reqPc = "called"
    /\ prepared = [params |-> ""]
    /\ requestUrlCalls = <<>>
    /\ response = [status |-> 0]
    /\ caught = [has |-> FALSE, at |-> "", v |-> UndefV]
    /\ onErrorCalls = 0
    /\ outcome = UndefV

\* --- sendRequest ----------------------------------------------------------
\* The catch block: normalizeError, middlewares.onError, throw
Catch(at, error) ==
    LET normalizedError == normalizeError(error) IN
    /\ caught' = [has |-> TRUE, at |-> at, v |-> error]
    /\ reqPc' = "rejected"
    /\ IF normalizedError.throws
       THEN /\ outcome' = normalizedError.v
            /\ UNCHANGED onErrorCalls
       ELSE IF clientConfig.onError
       THEN /\ outcome' = onError(normalizedError.v)
            /\ onErrorCalls' = onErrorCalls + 1
       ELSE /\ outcome' = normalizedError.v
            /\ UNCHANGED onErrorCalls

\* Lines 91-95: a non-empty 'content-type' header moves to 'Content-Type'
NormalizeContentType(headers) ==
    LET contentType == Get(headers.map, "content-type") IN
    IF headers.defined /\ contentType.t = "string" /\ contentType.s # ""
    THEN [headers EXCEPT !.map =
             Without(Spread(@, Header("Content-Type", contentType)), "content-type")]
    ELSE headers

\* Lines 101-103
RequestContentType(headers) ==
    LET v == Get(headers.map, "Content-Type") IN
    IF v.t = "string" THEN v.s ELSE "application/json"

\* Lines 105-110: [headers of the body, body]
RequestBody(requestContentType, data) ==
    IF StartsWithMultipart(requestContentType)
    THEN IF data.t = "formData"
         THEN [throws |-> FALSE, headers |-> FormDataHeaders, body |-> FormDataBuffer]
         ELSE [throws |-> TRUE, headers |-> NoHeaders,
               body |-> TypeErrorV("requestConfig.data.getHeaders is not a function")]
    ELSE [throws |-> FALSE, headers |-> NoHeaders, body |-> JSONStringify(data).v]

\* sendRequest up to its first await (the authentication token)
SendRequest ==
    /\ reqPc = "called"
    /\ LET headers == NormalizeContentType(requestConfig.headers)
           params == paramSerializer(requestConfig.params)
           requestContentType == RequestContentType(headers)
           requestBody == RequestBody(requestContentType, requestConfig.data)
       IN
       /\ requestConfig' = [requestConfig EXCEPT !.headers = headers]
       /\ IF params.throws
          THEN Catch("prepare", params.v) /\ UNCHANGED prepared
          ELSE IF requestBody.throws
          THEN Catch("prepare", requestBody.body) /\ UNCHANGED prepared
          ELSE /\ prepared' = [params |-> params.v,
                               requestContentType |-> requestContentType,
                               requestBody |-> requestBody]
               /\ reqPc' = "auth"
               /\ UNCHANGED <<caught, outcome, onErrorCalls>>
    /\ UNCHANGED <<clientConfig, requestUrlCalls, response, vault, folderToPublish,
                   pluginVars, selVars,
                   callVars>>

\* Lines 113-140: the argument of requestUrl
ModifiedRequestConfig(token) ==
    [ url |-> clientConfig.host \o urlSuffix \o requestConfig.url \o "?"
                  \o prepared.params,
      method |-> IF requestConfig.method.t = "string"
                 THEN toUpperCase(requestConfig.method.s) ELSE "GET",
      headers |-> removeUndefinedProperties(
          Spread(Spread(Spread(Spread(
              [k \in {"User-Agent", "Accept", "X-Atlassian-Token"} |->
                  CASE k = "User-Agent" -> StrV("Obsidian.md")
                    [] k = "Accept" -> StrV("application/json")
                    [] OTHER -> IF clientConfig.noCheckAtlassianToken
                                THEN StrV("no-check") ELSE UndefV],
              Header("Authorization", StrV(token))),
              requestConfig.headers.map),
              Header("Content-Type", StrV(prepared.requestContentType))),
              prepared.requestBody.headers)),
      body |-> prepared.requestBody.body,
      contentType |-> prepared.requestContentType,
      throw |-> FALSE ]

\* The token arrives: requestUrl(modifiedRequestConfig) is called
AuthResolves ==
    /\ reqPc = "auth"
    /\ requestUrlCalls' = Append(requestUrlCalls, ModifiedRequestConfig("Basic dTpw"))
    /\ reqPc' = "requesting"
    /\ UNCHANGED <<clientConfig, requestConfig, prepared, response, caught,
                   onErrorCalls, outcome, vault, folderToPublish, pluginVars, selVars,
                   callVars>>

\* AuthenticationService.getAuthenticationToken rejects
AuthRejects ==
    /\ reqPc = "auth"
    /\ \E e \in ThrownInRequest : Catch("auth", e)
    /\ UNCHANGED <<clientConfig, requestConfig, prepared, requestUrlCalls, response,
                   vault, folderToPublish, pluginVars, selVars,
                   callVars>>

\* response.status >= 400
IsErrorStatus_Above(status) == status > 400

IsErrorStatus(status) == status >= 400

\* requestUrl returns a response (throw: false, so for every status)
RequestUrlReturns ==
    /\ reqPc = "requesting"
    /\ \E resp \in Responses :
          /\ response' = resp
          /\ IF IsErrorStatus(resp.status)
             THEN Catch("status",
                        HTTPError("Received a " \o ToString(resp.status),
                                  [status |-> resp.status, data |-> resp.text]))
             ELSE /\ reqPc' = "resolved"
                  /\ outcome' = resp.json
                  /\ UNCHANGED <<caught, onErrorCalls>>
    /\ UNCHANGED <<clientConfig, requestConfig, prepared, requestUrlCalls,
                   vault, folderToPublish, pluginVars, selVars,
                   callVars>>

\* requestUrl rejects (no connection, ...)
RequestUrlThrows ==
    /\ reqPc = "requesting"
    /\ \E e \in ThrownInRequest : Catch("request", e)
    /\ UNCHANGED <<clientConfig, requestConfig, prepared, requestUrlCalls, response,
                   vault, folderToPublish, pluginVars, selVars,
                   callVars>>

NextRequest ==
    \/ SendRequest
    \/ AuthResolves
    \/ AuthRejects
    \/ RequestUrlReturns
    \/ RequestUrlThrows

SpecRequest == InitRequest /\ [][NextRequest]_vars

\* ------------------------------------------------------------------------
\* Properties of sendRequest (checked under SpecRequest)
\* ------------------------------------------------------------------------
\* C4 (as claimed): for every request configuration, with or without params,
\* headers or data, once the token is there sendRequest calls requestUrl
\* exactly once, for host + '/wiki/rest' + url + '?' + the serialized params
\* and with the method upper-cased, GET by default.
C4_Serialized(parameters) ==
    IF parameters.defined THEN JoinAmp(ParamParts(parameters.entries, 1, <<>>)) ELSE ""

C4_OneRequestUrlCall ==
    /\ Len(requestUrlCalls) <= 1
    /\ (reqPc \in {"requesting", "resolved", "rejected"} /\ caught.at # "auth") =>
          /\ Len(requestUrlCalls) = 1
          /\ requestUrlCalls[1].url =
                 clientConfig.host \o "/wiki/rest" \o requestConfig.url \o "?"
                     \o C4_Serialized(requestConfig.params)
          /\ requestUrlCalls[1].method =
                 IF requestConfig.method = UndefV THEN "GET"
                 ELSE toUpperCase(requestConfig.method.s)

\* C5: sendRequest resolves, with the JSON of the response, exactly when a
\* response with a status below 400 arrived; for a status of 400 or more it
\* rejects with an HTTPError that carries the status and, as data, the text
\* of the response, and the JSON is not returned.
C5_StatusDecides ==
    /\ reqPc = "resolved" =>
          /\ response.status # 0 /\ response.status < 400
          /\ outcome = response.json
    /\ (reqPc \in {"resolved", "rejected"} /\ response.status # 0) =>
          IF response.status < 400
          THEN reqPc = "resolved"
          ELSE /\ reqPc = "rejected"
               /\ outcome.t = "HTTPError"
               /\ outcome.response.status = response.status
               /\ outcome.response.data = response.text

\* C5 witness: a response with status 400 was turned into an HTTPError
\* carrying 400 and the text.
C5_Witness ==
    /\ reqPc = "rejected"
    /\ response.status = 400
    /\ outcome.t = "HTTPError"
    /\ outcome.response = [status |-> 400, data |-> "null"]

\* C6 (as claimed): sendRequest rejects with an Error instance only: a thrown
\* Error is passed on as the same object, any other thrown value is wrapped
\* in a new Error whose message is its JSON form (objects) or its String form.
C6_RejectsWithError ==
    (reqPc = "rejected") =>
        /\ InstanceOfError(outcome)
        /\ IF InstanceOfError(caught.v)
           THEN outcome.t = caught.v.t /\ outcome.n = caught.v.n
           ELSE /\ outcome.t = "Error"
                /\ outcome.n = NewErrorId
                /\ outcome.s = IF TypeOf(caught.v) = "object"
                               THEN JSONStringify(caught.v).v.s
                               ELSE StringOf(caught.v)

\* C14 (as claimed): in every request handed to requestUrl the content type
\* is under the key 'Content-Type' only: no lower-case 'content-type' key is
\* left, 'Content-Type' holds the content type of the request, which is
\* 'application/json' when the request gave none, and no header is undefined.
C14_ContentTypeKey ==
    \A i \in DOMAIN requestUrlCalls :
        LET headers == requestUrlCalls[i].headers
            given == requestConfig.headers.map
        IN /\ "content-type" \notin DOMAIN headers
           /\ "Content-Type" \in DOMAIN headers
           /\ headers["Content-Type"] = StrV(prepared.requestContentType)
           /\ ("Content-Type" \notin DOMAIN given) =>
                  headers["Content-Type"] = StrV("application/json")
           /\ \A k \in DOMAIN headers : headers[k] # UndefV

\* ------------------------------------------------------------------------
\* doPublish called on its own (SpecDoPublish)
\* ------------------------------------------------------------------------
\* The elements the publisher may return
ResultPaths == {"p/a.md", "x/c.md"}
Reasons == {UndefV, StrV(""), StrV("Conflict")}

AdrFiles ==
    { AdrFile(path, sur, reason) :
        path \in ResultPaths,
        sur \in {UndefV, UploadResult("p/a.md", "updated"),
                 UploadResult("x/c.md", "same")},
        reason \in Reasons }

AdrFileLists(n) == UNION { [1..k -> AdrFiles] : k \in 0..n }

InitDoPublish ==
    /\ PluginInit
    /\ SelectIdle
    /\ RequestIdle
    /\ vault = PluginVault
    /\ folderToPublish = <<"p">>
    /\ UpdateIdle
    /\ published \in AdrFileLists(MaxResults)
    /\ doPublishPc = "idle"
    /\ doPublishReturn = UndefV

\* doPublish(publishFilter) up to await this.publisher.publish(publishFilter)
CallDoPublish ==
    /\ doPublishPc = "idle"
    /\ doPublishPc' = "publishing"
    /\ UNCHANGED <<published, doPublishReturn, vault, folderToPublish,
                   pluginVars, selVars, reqVars, umvVars>>

\* publish resolved: the forEach over adrFiles, return returnVal
PublisherResolves ==
    /\ doPublishPc = "publishing"
    /\ doPublishReturn' = DoPublish(published)
    /\ doPublishPc' = "returned"
    /\ UNCHANGED <<published, vault, folderToPublish, pluginVars, selVars, reqVars,
                   umvVars>>

\* publish rejected: doPublish rejects with the same value
PublisherRejects ==
    /\ doPublishPc = "publishing"
    /\ \E e \in Thrown : doPublishReturn' = e
    /\ doPublishPc' = "rejected"
    /\ UNCHANGED <<published, vault, folderToPublish, pluginVars, selVars, reqVars,
                   umvVars>>

NextDoPublish ==
    \/ CallDoPublish
    \/ PublisherResolves
    \/ PublisherRejects

SpecDoPublish == InitDoPublish /\ [][NextDoPublish]_vars

C11_HasResult(element) == element.successfulUploadResult # UndefV
C11_HasNoResult(element) == element.successfulUploadResult = UndefV

\* C11: doPublish partitions the publisher's results: filesUploadResult is
\* the successfulUploadResult of the elements that have one, failedFiles is
\* the file path and the reason ('No Reason Provided' when the element has
\* none) of the others, both in the publisher's order; so their lengths sum
\* to the number of results; and errorMessage is null.
C11_Partition ==
    (doPublishPc = "returned") =>
        LET ok == SelectSeq(published, C11_HasResult)
            failed == SelectSeq(published, C11_HasNoResult)
        IN /\ doPublishReturn.filesUploadResult =
                  [i \in 1..Len(ok) |-> ok[i].successfulUploadResult]
           /\ doPublishReturn.failedFiles =
                  [i \in 1..Len(failed) |->
                      [fileName |-> failed[i].absoluteFilePath,
                       reason |-> IF failed[i].reason = UndefV
                                  THEN StrV("No Reason Provided")
                                  ELSE failed[i].reason]]
           /\ Len(doPublishReturn.filesUploadResult)
                  + Len(doPublishReturn.failedFiles) = Len(published)
           /\ doPublishReturn.errorMessage = NullV

\* C11 witness: the publisher returned a failed element without a reason,
\* then an uploaded one that carries a reason; doPublish returned one of each.
C11_Witness ==
    /\ doPublishPc = "returned"
    /\ Len(published) = 2
    /\ published[1].successfulUploadResult = UndefV
    /\ published[1].reason = UndefV
    /\ published[2].successfulUploadResult # UndefV
    /\ published[2].reason = StrV("Conflict")
    /\ doPublishReturn.failedFiles =
           <<[fileName |-> published[1].absoluteFilePath,
              reason |-> StrV("No Reason Provided")]>>
    /\ doPublishReturn.filesUploadResult = <<published[2].successfulUploadResult>>

\* ------------------------------------------------------------------------
\* ObsidianAdaptor.updateMarkdownValues (SpecUpdate)
\* ------------------------------------------------------------------------
\* ConfluencePageConfig.conniePerPageConfig of the publishing library: the
\* frontmatter key of each per-page property, in the order of for...in.
\* Two of its entries stand for all.
ConfigProperties == <<"publish", "pageId">>

conniePerPageConfig ==
    [publish |-> [key |-> "connie-publish"], pageId |-> [key |-> "connie-page-id"]]

\* A frontmatter object: each key holds a value, or is absent
Absent == [t |-> "absent", s |-> "", n |-> 0]
FrontmatterKeys == {"connie-publish", "connie-page-id", "tags"}
FrontmatterValues == {Absent, StrV("old")}

\* propertyKey in values
InValues_Defined(propertyKey, values) ==
    propertyKey \in DOMAIN values /\ values[propertyKey] # UndefV

InValues(propertyKey, values) == propertyKey \in DOMAIN values

\* The callback handed to processFrontMatter: for (const propertyKey in config)
RECURSIVE FrontMatterLoop(_, _, _)
FrontMatterLoop(fm, values, i) ==
    IF i > Len(ConfigProperties) THEN fm
    ELSE LET propertyKey == ConfigProperties[i]
             key == conniePerPageConfig[propertyKey].key
         IN IF InValues(propertyKey, values)
            THEN FrontMatterLoop([fm EXCEPT ![key] = values[propertyKey]], values, i + 1)
            ELSE FrontMatterLoop(fm, values, i + 1)

\* this.app.vault.getAbstractFileByPath(absoluteFilePath)
UpdatePaths == {"p/a.md", "p", "p/gone.md"}
VaultFiles == {"p/a.md", "x/c.md"}
VaultFolders == {"p", "x"}

GetAbstractFileByPath(path) ==
    IF path \in VaultFiles THEN "TFile"
    ELSE IF path \in VaultFolders THEN "TFolder"
    ELSE "null"

\* The values the publishing library may hand over: some per-page properties,
\* perhaps a key the config does not know, each with a value or undefined
ValueKeys == {"publish", "pageId", "version"}
ValueSets == UNION { [K -> {StrV("new"), UndefV}] : K \in SUBSET ValueKeys }

pluginRest ==
    <<isSyncing, adaptor, publisher, loadMarkdownFile, initPc, nInits,
      nCalls, running, notices, pc, local,
      publishingModal, completedModal, settled, restored>>

InitUpdate ==
    /\ PluginInit
    /\ SelectIdle
    /\ RequestIdle
    /\ DoPublishIdle
    /\ vault = PluginVault
    /\ folderToPublish = <<"p">>
    /\ \E fm \in [FrontmatterKeys -> FrontmatterValues] :
          frontmatter = [f \in VaultFiles |->
              IF f = "p/a.md" THEN fm ELSE [k \in FrontmatterKeys |-> StrV("old")]]
    /\ umvPath \in UpdatePaths
    /\ umvValues \in ValueSets
    /\ umvViewActive \in BOOLEAN
    /\ umvPc = "idle"
    /\ fmWork = "none"
    /\ umvTimer = [armed |-> FALSE, savedCursor |-> NoPos, savedScrollInfo |-> NoPos]

\* updateMarkdownValues(absoluteFilePath, values): it starts processFrontMatter
\* without awaiting it, arms the timer when the active view shows the file,
\* and resolves
UpdateMarkdownValues ==
    /\ umvPc = "idle"
    /\ umvPc' = "returned"
    /\ IF GetAbstractFileByPath(umvPath) = "TFile"
       THEN /\ fmWork' = "pending"
            /\ umvTimer' = IF umvViewActive
                           THEN [armed |-> TRUE, savedCursor |-> cursor,
                                 savedScrollInfo |-> scrollInfo]
                           ELSE umvTimer
       ELSE UNCHANGED <<fmWork, umvTimer>>
    /\ UNCHANGED <<frontmatter, umvPath, umvValues, umvViewActive, cursor, scrollInfo,
                   vault, folderToPublish, pluginRest, selVars, reqVars, dpVars>>

\* The host runs the callback on the file's frontmatter and writes the file;
\* the editor that shows the file may lose its position
ProcessFrontMatter ==
    /\ fmWork = "pending"
    /\ fmWork' = "done"
    /\ frontmatter' = [frontmatter EXCEPT ![umvPath] =
           FrontMatterLoop(frontmatter[umvPath], umvValues, 1)]
    /\ \E p \in Positions :
          /\ cursor' = IF umvViewActive THEN p ELSE cursor
          /\ scrollInfo' = IF umvViewActive THEN p ELSE scrollInfo
    /\ UNCHANGED <<umvPath, umvValues, umvViewActive, umvPc, umvTimer,
                   vault, folderToPublish, pluginRest, selVars, reqVars, dpVars>>

\* The host cannot process the file (it was removed, its frontmatter does not
\* parse): the promise nobody awaits rejects
ProcessFrontMatterFails ==
    /\ fmWork = "pending"
    /\ fmWork' = "failed"
    /\ UNCHANGED <<frontmatter, umvPath, umvValues, umvViewActive, umvPc, umvTimer,
                   cursor, scrollInfo,
                   vault, folderToPublish, pluginRest, selVars, reqVars, dpVars>>

\* The 100 ms timer: setCursor(savedCursor), scrollTo(savedScrollInfo)
RestoreEditorState ==
    /\ umvTimer.armed
    /\ cursor' = umvTimer.savedCursor
    /\ scrollInfo' = umvTimer.savedScrollInfo
    /\ umvTimer' = [armed |-> FALSE, savedCursor |-> NoPos, savedScrollInfo |-> NoPos]
    /\ UNCHANGED <<frontmatter, umvPath, umvValues, umvViewActive, umvPc, fmWork,
                   vault, folderToPublish, pluginRest, selVars, reqVars, dpVars>>

NextUpdate ==
    \/ UpdateMarkdownValues
    \/ ProcessFrontMatter
    \/ ProcessFrontMatterFails
    \/ RestoreEditorState

SpecUpdate == InitUpdate /\ [][NextUpdate]_vars

\* The frontmatter the claim expects after the update
C13_Expected(fm, values) ==
    LET given == DOMAIN values \cap DOMAIN conniePerPageConfig IN
    [k \in FrontmatterKeys |->
        IF \E p \in given : conniePerPageConfig[p].key = k
        THEN values[CHOOSE p \in given : conniePerPageConfig[p].key = k]
        ELSE fm[k]]

\* C13: updateMarkdownValues writes frontmatter[config[property].key] =
\* values[property] for each per-page property present in values and leaves
\* every other key of the file, and every other file, unchanged; when the
\* path does not resolve to a file it returns without starting a write.
C13_FrameEffect ==
    /\ [][frontmatter' # frontmatter =>
            /\ GetAbstractFileByPath(umvPath) = "TFile"
            /\ frontmatter' = [frontmatter EXCEPT ![umvPath] =
                   C13_Expected(frontmatter[umvPath], umvValues)]]_vars
    /\ [](fmWork = "done" =>
            \A p \in DOMAIN umvValues \cap DOMAIN conniePerPageConfig :
                frontmatter[umvPath][conniePerPageConfig[p].key] = umvValues[p])
    /\ []((umvPc = "returned" /\ GetAbstractFileByPath(umvPath) # "TFile") =>
            (fmWork = "none" /\ ~umvTimer.armed))

\* C13 witness: values held publish (undefined) and a key the config does not
\* know, but not pageId; the write is done: connie-publish is undefined,
\* connie-page-id and tags are as they were.
C13_Witness ==
    /\ fmWork = "done"
    /\ DOMAIN umvValues = {"publish", "version"}
    /\ umvValues["publish"] = UndefV
    /\ frontmatter[umvPath]["connie-publish"] = UndefV
    /\ frontmatter[umvPath]["connie-page-id"] = StrV("old")
    /\ frontmatter[umvPath]["tags"] = Absent
    /\ frontmatter["x/c.md"]["connie-publish"] = StrV("old")

====
